---- MODULE Spec2Model ----
(***************************************************************************)
(* The epoch loop of train.py (open-unmix trainer): train pass, validation *)
(* pass, scheduler step, early-stopping step, checkpoint write, metadata   *)
(* (output.json) write, elapsed-time bookkeeping and loop exit.            *)
(*                                                                         *)
(* utils.EarlyStopping and utils.save_checkpoint are imported by train.py  *)
(* and are not part of the sources at hand; they are modelled from the     *)
(* design document (sections 4.3 and 4.4).                                 *)
(***************************************************************************)
EXTENDS Integers, Sequences, FiniteSets

\* ---------------------------------------------------------------- bounds
MaxEpochs == 3
MaxPatience == 2
MaxLoss == 2

\* the values a validation pass can return, and +infinity above them all
ValidLossValues == 1 .. MaxLoss
Inf == MaxLoss + 1
\* the values a train pass can return and the wall times an epoch can take
TrainLossValues == {7, 8}
ElapsedValues == {1, 2}

\* what a file under target_path holds: nothing (it does not exist), a
\* truncated or partly written text, or the complete serialised record
NoFile == [kind |-> "absent"]
Truncated == [kind |-> "truncated"]
File(data) == [kind |-> "complete", data |-> data]

VARIABLES
    epochs,         \* args.epochs
    patience,       \* args.patience
    pc,             \* the statement of the loop body that runs next
    epoch,          \* loop variable of `for epoch in t`
    train_loss,     \* result of train() of the running epoch
    valid_loss,     \* result of valid() of the running epoch
    train_losses,   \* train_losses list
    valid_losses,   \* valid_losses list
    train_times,    \* train_times list
    best_epoch,     \* best_epoch
    es,             \* utils.EarlyStopping instance: [best, counter]
    stop,           \* stop = es.step(valid_loss)
    unmix,          \* the model parameters: number of train passes applied
    optimizer,      \* the optimizer state: number of train passes applied
    sched_metrics,  \* the metrics scheduler.step() has been called with
    es_metrics,     \* the metrics es.step() has been called with
    disk,           \* the files under target_path: [latest, best, meta]
    prev_disk,      \* the files as they were before this epoch's persistence
    best_written,   \* the epochs whose save_checkpoint rewrote "best"
    trace,          \* the steps executed so far: [step, epoch, val]
    crashed         \* the process has been killed

vars == <<epochs, patience, pc, epoch, train_loss, valid_loss, train_losses,
          valid_losses, train_times, best_epoch, es, stop, unmix, optimizer,
          sched_metrics, es_metrics, disk, prev_disk, best_written, trace,
          crashed>>

\* ---------------------------------------------------------------- helpers
Min(S) == CHOOSE x \in S : \A y \in S : x <= y

Event(step, val) == [step |-> step, epoch |-> epoch, val |-> val]

\* ------------------------------------------------- utils.EarlyStopping
\* EarlyStopping(patience): best = +infinity, counter = 0
ESInit == [best |-> Inf, counter |-> 0]

\* step(current_loss): the state after the call
ESStep(s, loss) ==
    IF loss < s.best
    THEN [best |-> loss, counter |-> 0]
    ELSE [best |-> s.best, counter |-> s.counter + 1]

\* step(current_loss): the value returned, TRUE for "halt"
ESHalt(s, loss) ==
    IF loss < s.best THEN FALSE ELSE s.counter + 1 >= patience

\* ------------------------------------------------- utils.save_checkpoint
\* "latest" is always overwritten, "best" only when is_best; each write is
\* atomic
SaveCheckpointFiles(d, state, is_best) ==
    [d EXCEPT !.latest = File(state),
              !.best = IF is_best THEN File(state) ELSE @]

\* ------------------------------------------------- train.py, loop body
\* slip: the scheduler is fed the training loss
SchedMetric_TrainLoss == train_loss

\* scheduler.step(valid_loss)
SchedMetric == valid_loss

\* es.step(valid_loss)
ESMetric == valid_loss

\* slip: best_epoch follows a strict comparison with the best before the
\* step, while is_best stays an equality with the best after it
BestEpochAfter_Strict(s) ==
    IF valid_loss < es.best THEN epoch ELSE best_epoch

\* if valid_loss == es.best: best_epoch = epoch   (es already stepped)
BestEpochAfter(s) == IF valid_loss = s.best THEN epoch ELSE best_epoch

\* slip: best_loss records the running epoch's loss instead of es.best
CheckpointState_CurrentLoss ==
    [epoch      |-> epoch + 1,
     state_dict |-> unmix,
     best_loss  |-> valid_loss,
     optimizer  |-> optimizer]

\* the dictionary handed to utils.save_checkpoint
CheckpointState ==
    [epoch      |-> epoch + 1,
     state_dict |-> unmix,
     best_loss  |-> es.best,
     optimizer  |-> optimizer]

\* is_best=valid_loss == es.best
IsBest == valid_loss = es.best

\* slip: epochs_trained uses the checkpoint's convention, epoch + 1
Params_EpochPlusOne ==
    [epochs_trained     |-> epoch + 1,
     args               |-> [epochs |-> epochs, patience |-> patience],
     best_loss          |-> es.best,
     best_epoch         |-> best_epoch,
     train_loss_history |-> train_losses,
     valid_loss_history |-> valid_losses,
     train_time_history |-> train_times]

\* params, as json.dumps serialises it when output.json is written
Params ==
    [epochs_trained     |-> epoch,
     args               |-> [epochs |-> epochs, patience |-> patience],
     best_loss          |-> es.best,
     best_epoch         |-> best_epoch,
     train_loss_history |-> train_losses,
     valid_loss_history |-> valid_losses,
     train_time_history |-> train_times]

\* slip: the halt signal is ignored, only the epoch bound ends the loop
LoopExits_NoBreak == epoch >= epochs

\* slip: the range runs one epoch too far, trange(1, epochs + 2)
LoopExits_OffByOne == stop \/ epoch > epochs

\* `if stop: break`, else the loop goes on while trange(1, epochs + 1) lasts
LoopExits == stop \/ epoch >= epochs

\* ---------------------------------------------------------------- Init
Init ==
    /\ epochs \in 1 .. MaxEpochs
    /\ patience \in 1 .. MaxPatience
    /\ pc = "train"
    /\ epoch = 1
    /\ train_loss = 0
    /\ valid_loss = 0
    /\ train_losses = <<>>
    /\ valid_losses = <<>>
    /\ train_times = <<>>
    /\ best_epoch = 0
    /\ es = ESInit
    /\ stop = FALSE
    /\ unmix = 0
    /\ optimizer = 0
    /\ sched_metrics = <<>>
    /\ es_metrics = <<>>
    /\ disk = [latest |-> NoFile, best |-> NoFile, meta |-> NoFile]
    /\ prev_disk = [latest |-> NoFile, best |-> NoFile, meta |-> NoFile]
    /\ best_written = {}
    /\ trace = <<>>
    /\ crashed = FALSE

\* ---------------------------------------------------------------- actions
\* end = time.time(); train_loss = train()
Train ==
    /\ ~crashed /\ pc = "train"
    /\ \E l \in TrainLossValues :
          /\ train_loss' = l
          /\ trace' = Append(trace, Event("train", l))
    /\ unmix' = unmix + 1
    /\ optimizer' = optimizer + 1
    /\ pc' = "valid"
    /\ UNCHANGED <<epochs, patience, epoch, valid_loss, train_losses,
                   valid_losses, train_times, best_epoch, es, stop,
                   sched_metrics, es_metrics, disk, prev_disk, best_written,
                   crashed>>

\* valid_loss = valid()
Valid ==
    /\ ~crashed /\ pc = "valid"
    /\ \E l \in ValidLossValues :
          /\ valid_loss' = l
          /\ trace' = Append(trace, Event("valid", l))
    /\ pc' = "sched"
    /\ UNCHANGED <<epochs, patience, epoch, train_loss, train_losses,
                   valid_losses, train_times, best_epoch, es, stop, unmix,
                   optimizer, sched_metrics, es_metrics, disk, prev_disk,
                   best_written, crashed>>

\* scheduler.step(valid_loss); train_losses.append; valid_losses.append
SchedStep ==
    /\ ~crashed /\ pc = "sched"
    /\ sched_metrics' = Append(sched_metrics, SchedMetric)
    /\ train_losses' = Append(train_losses, train_loss)
    /\ valid_losses' = Append(valid_losses, valid_loss)
    /\ trace' = Append(trace, Event("sched", SchedMetric))
    /\ pc' = "es_step"
    /\ UNCHANGED <<epochs, patience, epoch, train_loss, valid_loss,
                   train_times, best_epoch, es, stop, unmix, optimizer,
                   es_metrics, disk, prev_disk, best_written, crashed>>

\* stop = es.step(valid_loss); if valid_loss == es.best: best_epoch = epoch
EsStep ==
    /\ ~crashed /\ pc = "es_step"
    /\ es' = ESStep(es, ESMetric)
    /\ stop' = ESHalt(es, ESMetric)
    /\ best_epoch' = BestEpochAfter(ESStep(es, ESMetric))
    /\ es_metrics' = Append(es_metrics, ESMetric)
    /\ trace' = Append(trace, Event("es_step", ESMetric))
    /\ prev_disk' = disk
    /\ pc' = "save_checkpoint"
    /\ UNCHANGED <<epochs, patience, epoch, train_loss, valid_loss,
                   train_losses, valid_losses, train_times, unmix, optimizer,
                   sched_metrics, disk, best_written, crashed>>

\* utils.save_checkpoint({...}, is_best=valid_loss == es.best, ...)
SaveCheckpoint ==
    /\ ~crashed /\ pc = "save_checkpoint"
    /\ disk' = SaveCheckpointFiles(disk, CheckpointState, IsBest)
    /\ best_written' = IF IsBest THEN best_written \cup {epoch}
                                 ELSE best_written
    /\ trace' = Append(trace, Event("save_checkpoint", CheckpointState.epoch))
    /\ pc' = "open_metadata"
    /\ UNCHANGED <<epochs, patience, epoch, train_loss, valid_loss,
                   train_losses, valid_losses, train_times, best_epoch, es,
                   stop, unmix, optimizer, sched_metrics, es_metrics,
                   prev_disk, crashed>>

\* params = {...}; open(Path(target_path, "output.json"), 'w'): mode 'w'
\* truncates the file before anything is written
OpenMetadata ==
    /\ ~crashed /\ pc = "open_metadata"
    /\ disk' = [disk EXCEPT !.meta = Truncated]
    /\ trace' = Append(trace, Event("open_metadata", 0))
    /\ pc' = "write_metadata"
    /\ UNCHANGED <<epochs, patience, epoch, train_loss, valid_loss,
                   train_losses, valid_losses, train_times, best_epoch, es,
                   stop, unmix, optimizer, sched_metrics, es_metrics,
                   prev_disk, best_written, crashed>>

\* outfile.write(json.dumps(params, ...)) and the close of the with block
WriteMetadata ==
    /\ ~crashed /\ pc = "write_metadata"
    /\ disk' = [disk EXCEPT !.meta = File(Params)]
    /\ trace' = Append(trace, Event("write_metadata", Params.epochs_trained))
    /\ pc' = "end_epoch"
    /\ UNCHANGED <<epochs, patience, epoch, train_loss, valid_loss,
                   train_losses, valid_losses, train_times, best_epoch, es,
                   stop, unmix, optimizer, sched_metrics, es_metrics,
                   prev_disk, best_written, crashed>>

\* train_times.append(time.time() - end); if stop: break; next epoch of t
EndEpoch ==
    /\ ~crashed /\ pc = "end_epoch"
    /\ \E d \in ElapsedValues :
          /\ train_times' = Append(train_times, d)
          /\ trace' = Append(trace, Event("end_epoch", d))
    /\ IF LoopExits
       THEN pc' = "done" /\ epoch' = epoch
       ELSE pc' = "train" /\ epoch' = epoch + 1
    /\ UNCHANGED <<epochs, patience, train_loss, valid_loss, train_losses,
                   valid_losses, best_epoch, es, stop, unmix, optimizer,
                   sched_metrics, es_metrics, disk, prev_disk, best_written,
                   crashed>>

\* the process is killed while the loop runs
Crash ==
    /\ ~crashed /\ pc # "done"
    /\ crashed' = TRUE
    /\ UNCHANGED <<epochs, patience, pc, epoch, train_loss, valid_loss,
                   train_losses, valid_losses, train_times, best_epoch, es,
                   stop, unmix, optimizer, sched_metrics, es_metrics, disk,
                   prev_disk, best_written, trace>>

Run ==
    \/ Train
    \/ Valid
    \/ SchedStep
    \/ EsStep
    \/ SaveCheckpoint
    \/ OpenMetadata
    \/ WriteMetadata
    \/ EndEpoch

Next == Run \/ Crash

Spec == Init /\ [][Next]_vars

\* a run that is not killed: the interpreter executes the next statement
LiveSpec == Init /\ [][Run]_vars /\ WF_vars(Run)

\* ------------------------------------------------- vocabulary of the claims
Range(h) == {h[i] : i \in DOMAIN h}

\* the order of the steps of one epoch
Steps == <<"train", "valid", "sched", "es_step", "save_checkpoint",
           "open_metadata", "write_metadata", "end_epoch">>

\* the positions of the trace at which `step` ran in epoch N
At(step, N) == {i \in DOMAIN trace : trace[i].step = step /\ trace[i].epoch = N}

\* the value the one run of `step` in epoch N carried
ValueOf(step, N) == trace[CHOOSE i \in At(step, N) : TRUE].val

\* epoch N has written its checkpoint and its metadata
Persisted(N) == N < epoch \/ (N = epoch /\ pc \in {"end_epoch", "done"})

\* no persistence is under way and at least one epoch has been persisted
AtRest ==
    \/ pc \in {"end_epoch", "done"}
    \/ epoch > 1 /\ pc \in {"train", "valid", "sched", "es_step",
                            "save_checkpoint"}

\* the best validation loss seen before epoch k
BestBefore(h, k) == Min({Inf} \cup {h[j] : j \in 1 .. k - 1})

\* epoch k is non-improving: not strictly below the best seen before it
NonImproving(h, k) == h[k] >= BestBefore(h, k)

\* the length of the run of non-improving epochs that ends with epoch k
RECURSIVE TrailingRun(_, _)
TrailingRun(h, k) ==
    IF k = 0 THEN 0
    ELSE IF NonImproving(h, k) THEN 1 + TrailingRun(h, k - 1)
    ELSE 0

\* ---------------------------------------------------------------- claims
\* C1: in every epoch N the loop runs, save_checkpoint and the output.json
\* write each happen exactly once, both after that epoch's validation pass,
\* scheduler step and early-stopping step, and the metadata written carries
\* epochs_trained = N.
C1_PersistOncePerEpoch ==
    \A N \in 1 .. epoch :
        LET saves == At("save_checkpoint", N)
            writes == At("write_metadata", N)
            before == {i \in DOMAIN trace :
                          /\ trace[i].epoch = N
                          /\ trace[i].step \in {"valid", "sched", "es_step"}}
        IN  /\ Cardinality(saves) <= 1
            /\ Cardinality(writes) <= 1
            /\ Persisted(N) => Cardinality(saves) = 1 /\ Cardinality(writes) = 1
            /\ \A i \in saves \cup writes :
                  {trace[j].step : j \in {k \in before : k < i}}
                      = {"valid", "sched", "es_step"}
            /\ \A i \in writes : trace[i].val = N
            /\ (N = epoch /\ pc \in {"end_epoch", "done"}) =>
                  /\ disk.meta.kind = "complete"
                  /\ disk.meta.data.epochs_trained = N

C1_Witness ==
    /\ pc = "done"
    /\ epoch = 3
    /\ \A N \in 1 .. 3 : Cardinality(At("write_metadata", N)) = 1
    /\ disk.meta.kind = "complete"
    /\ disk.meta.data.epochs_trained = 3

\* C2: is_best is true exactly for the epochs whose validation loss is
\* strictly below the loss of every previous epoch, and "best" is rewritten
\* on exactly those epochs.
C2_IsBestStrict ==
    \A N \in 1 .. epoch :
        At("save_checkpoint", N) # {} =>
            (N \in best_written <=>
                \A k \in 1 .. N - 1 : valid_losses[N] < valid_losses[k])

C4_State ==
    LET n == Len(valid_losses)
        seen == IF pc = "es_step" THEN SubSeq(valid_losses, 1, n - 1)
                                  ELSE valid_losses
    IN  /\ es.best = Min({Inf} \cup Range(seen))
        /\ pc \in {"open_metadata", "write_metadata", "end_epoch", "done"} =>
              /\ disk.latest.kind = "complete"
              /\ disk.latest.data.best_loss = Min(Range(valid_losses))
        /\ pc \in {"end_epoch", "done"} =>
              /\ disk.meta.kind = "complete"
              /\ disk.meta.data.best_loss = Min(Range(valid_losses))

\* C4: after every early-stopping step es.best is the minimum of all the
\* validation losses observed so far, it never increases, and the best_loss
\* written into the checkpoint and into the metadata of the epoch is that
\* value.
C4_BestIsMinimum == [](C4_State) /\ [][es'.best <= es.best]_vars

C4_Witness ==
    /\ pc = "end_epoch"
    /\ epoch = 3
    /\ valid_losses = <<2, 1, 2>>
    /\ es.best = 1
    /\ disk.latest.data.best_loss = 1
    /\ disk.meta.data.best_loss = 1

\* C5: if the process crashes during an epoch's persistence step, each of
\* the three files holds either its complete previous contents or its
\* complete new contents, never a half-written state.
C5_AtomicWrites ==
    (crashed /\ pc \in {"save_checkpoint", "open_metadata", "write_metadata",
                        "end_epoch"}) =>
        /\ disk.latest \in {prev_disk.latest, File(CheckpointState)}
        /\ disk.best \in {prev_disk.best, File(CheckpointState)}
        /\ disk.meta \in {prev_disk.meta, File(Params)}

\* C6: at every point after the first persistence, a crash included, the
\* epochs_trained of the metadata file on disk matches the epoch recorded
\* in the "latest" checkpoint on disk.
C6_MetadataMatchesCheckpoint ==
    At("write_metadata", 1) # {} =>
        /\ disk.meta.kind = "complete"
        /\ disk.latest.kind = "complete"
        /\ disk.meta.data.epochs_trained = disk.latest.data.epoch

\* C7: after every completed epoch the "best" file exists and holds the
\* model and optimizer snapshot of the epoch the metadata records as
\* best_epoch, and that epoch's validation loss is the lowest observed so
\* far (the metadata's best_loss).
C7_BestRecoverable ==
    AtRest =>
        /\ disk.best.kind = "complete"
        /\ disk.meta.kind = "complete"
        /\ LET m == disk.meta.data
               b == disk.meta.data.best_epoch
           IN  /\ b \in 1 .. m.epochs_trained
               /\ disk.best.data.state_dict = b
               /\ disk.best.data.optimizer = b
               /\ m.valid_loss_history[b] = m.best_loss
               /\ m.best_loss = Min(Range(m.valid_loss_history))
               /\ disk.best.data.best_loss = m.best_loss

C7_Witness ==
    /\ pc = "done"
    /\ stop
    /\ epoch = 3
    /\ disk.meta.kind = "complete"
    /\ disk.meta.data.best_epoch = 2
    /\ disk.best.kind = "complete"
    /\ disk.best.data.state_dict = 2
    /\ disk.latest.data.state_dict = 3

\* what C8 states of the state in which the loop has exited
C8_AtExit ==
    /\ epoch \in 1 .. epochs
    /\ Len(train_times) = epoch
    /\ stop \/ epoch = epochs
    /\ disk.latest = File(CheckpointState)
    /\ disk.meta.kind = "complete"
    /\ disk.meta.data.epochs_trained = epoch

\* C8: the loop terminates after at least one and at most `epochs` epochs;
\* it exits only at the end of an epoch, on the epoch bound or on the halt
\* signal, and the last epoch's checkpoint and metadata are on disk by then.
C8_LoopTerminates ==
    /\ <>(pc = "done")
    /\ [](epoch \in 1 .. epochs)
    /\ [](pc = "done" => C8_AtExit)
    /\ [][pc' = "done" => (pc = "end_epoch" /\ (stop \/ epoch = epochs))]_vars

C8_Witness ==
    /\ pc = "done"
    /\ ~stop
    /\ epoch = epochs
    /\ epochs = 3
    /\ disk.latest.kind = "complete"
    /\ disk.latest.data.epoch = 4

\* C9: the steps of every epoch run in the order train, validate, scheduler
\* step, early-stopping step, persistence; the scheduler and the monitor
\* are each stepped once per epoch, in epoch order, with the validation
\* loss of that same epoch.
C9_StepOrder ==
    LET \* the position in the trace of step number k of epoch N
        Pos(N, k) == 8 * (N - 1) + k
        \* how often step number k has run
        Runs(k) == (Len(trace) + 8 - k) \div 8
    IN  /\ \A i \in DOMAIN trace :
              /\ trace[i].step = Steps[((i - 1) % 8) + 1]
              /\ trace[i].epoch = ((i - 1) \div 8) + 1
        /\ Len(sched_metrics) = Runs(3)
        /\ Len(es_metrics) = Runs(4)
        /\ \A N \in 1 .. Len(sched_metrics) :
              /\ trace[Pos(N, 3)].val = sched_metrics[N]
              /\ sched_metrics[N] = trace[Pos(N, 2)].val
        /\ \A N \in 1 .. Len(es_metrics) :
              /\ trace[Pos(N, 4)].val = es_metrics[N]
              /\ es_metrics[N] = trace[Pos(N, 2)].val
        /\ \A N \in 1 .. epoch :
              Persisted(N) => Len(sched_metrics) >= N /\ Len(es_metrics) >= N

C9_Witness ==
    /\ pc = "done"
    /\ epoch = 3
    /\ sched_metrics = <<2, 1, 2>>
    /\ es_metrics = <<2, 1, 2>>
    /\ train_losses = <<8, 7, 7>>

\* C10: the metadata record written for epoch N holds exactly N entries in
\* each of train_loss_history, valid_loss_history and train_time_history,
\* entry k being the value epoch k produced.
C10_HistoriesComplete ==
    disk.meta.kind = "complete" =>
        LET m == disk.meta.data
            N == disk.meta.data.epochs_trained
        IN  /\ Len(m.train_loss_history) = N
            /\ Len(m.valid_loss_history) = N
            /\ Len(m.train_time_history) = N
            /\ \A k \in 1 .. N :
                  /\ m.train_loss_history[k] = ValueOf("train", k)
                  /\ m.valid_loss_history[k] = ValueOf("valid", k)
                  /\ m.train_time_history[k] = ValueOf("end_epoch", k)

====
